---- MODULE Spec2Model ----
(***************************************************************************)
(* Engineering Drawing Parameter Extractor.                                *)
(*                                                                         *)
(* Two programs share the extraction functions of                          *)
(* scripts/extract_parameters.py:                                          *)
(*   "app"    - main.py, the upload page: batch loop over the uploaded     *)
(*              files, then the per-file tables and the CSV export;        *)
(*   "script" - extract_parameters.main, the directory batch: loop over    *)
(*              the *.pdf files of a directory, then the Excel export.     *)
(*                                                                         *)
(* Text is abstracted to what the code reads of it: a file name is one of a    *)
(* few names with its last dot-separated segment tabulated, a model reply  *)
(* is its length and the JSON value it parses to, a JSON value is a record *)
(* [type, text, len, map].                                                 *)
(*                                                                         *)
(* The module-level names `client` and `deployment_name` read by           *)
(* analyze_engineering_drawing are bound by no line of the source files;   *)
(* the model takes the binding from the configuration: `client` is either  *)
(* a configured client (TRUE) or a falsy value (FALSE).                    *)
(***************************************************************************)
EXTENDS Integers, Sequences, FiniteSets, TLC

\* ------------------------------------------------------------------ bounds
\* Longest batch (uploaded files / directory entries) explored.
MaxFiles == 2

\* ------------------------------------------------------- program constants
\* content[:500] in the decode-failure log line.
DiagnosticCap == 500

\* ------------------------------------------------------------ JSON values
EmptyMap == [k \in {} |-> 0]

JsonStr(t, n) == [type |-> "str", text |-> t, len |-> n, map |-> EmptyMap]

JsonNull == [type |-> "null", text |-> "", len |-> 0, map |-> EmptyMap]

JsonNum == [type |-> "num", text |-> "42", len |-> 0, map |-> EmptyMap]

JsonList == [type |-> "list", text |-> "", len |-> 0, map |-> EmptyMap]

JsonDict(m) == [type |-> "dict", text |-> "", len |-> 0, map |-> m]

\* What json.loads raises JSONDecodeError on: text that is not JSON.
NotJson == [type |-> "invalid", text |-> "", len |-> 0, map |-> EmptyMap]

\* A short message string; only its identity is read.
Msg(t) == JsonStr(t, 0)

\* {"error": message}
ErrorDict(t) == JsonDict([k \in {"error"} |-> Msg(t)])

\* ------------------------------------------------------- parameter schema
\* json_schema["required"]
RequiredFields ==
    { "bore_diameter", "mounting", "operating_temperature", "operating_pressure",
      "close_length", "drawing_number", "fluid", "rod_end", "cylinder_action",
      "stroke_length", "rod_diameter", "outside_diameter", "body_material",
      "open_length", "rated_load", "piston_material", "standard", "surface_finish",
      "coating_thickness", "special_features", "cylinder_configuration",
      "cylinder_style", "concentricity_of_rod_and_tube" }

\* ------------------------------------------------------------- file names
\* The file names explored: a PDF (extension in upper case), two images
\* and a file of a kind that is not accepted.
Names == { "a.PDF", "b.png", "c.jpeg", "d.txt" }

\* name.split('.')[-1] on the names explored.
last_segment(name) ==
    CASE name = "a.PDF" -> "PDF"
      [] name = "b.png" -> "png"
      [] name = "c.jpeg" -> "jpeg"
      [] name = "d.txt" -> "txt"
      [] OTHER -> name

\* str.lower() on the segments explored.
lower(s) == IF s = "PDF" THEN "pdf" ELSE s

\* uploaded_file.name.split('.')[-1].lower()
file_extension(name) == lower(last_segment(name))

\* f.lower().endswith('.pdf')
ends_with_pdf(name) == lower(last_segment(name)) = "pdf" /\ name # last_segment(name)

\* ------------------------------------------------------------ byte strings
None == [isNone |-> TRUE, size |-> 0]

Bytes(n) == [isNone |-> FALSE, size |-> n]

\* Python truth value of None / bytes.
Truthy(b) == ~b.isNone /\ b.size > 0

\* Sizes of an uploaded payload: empty and not empty.
PayloadSizes == { 0, 1 }

\* ------------------------------------------------------ PDF rasterization
\* What the rasterizer meets: a renderable document, a document without
\* pages, a stream it cannot open, a failure after opening.
PdfStates == { "ok", "zero_pages", "unopenable", "render_error" }

\* Without the try/except: rasterizer errors reach the caller.
convert_pdf_to_image_bytes_unguarded(pdf) ==
    CASE pdf = "unopenable" -> [image |-> None, raised |-> TRUE, handle_open |-> FALSE]
      [] pdf = "zero_pages" -> [image |-> None, raised |-> FALSE, handle_open |-> TRUE]
      [] pdf = "render_error" -> [image |-> None, raised |-> TRUE, handle_open |-> TRUE]
      [] OTHER -> [image |-> Bytes(1), raised |-> FALSE, handle_open |-> FALSE]

\* convert_pdf_to_image_bytes: first page as JPEG bytes, None on any failure.
\* handle_open: the document opened by fitz.open was not closed on return.
\*   fitz.open raises on a stream it cannot open: caught, None;
\*   `if not pdf_document` (no pages): None, before pdf_document.close();
\*   an exception while rendering or encoding: caught, None, close() skipped;
\*   otherwise close() and the JPEG bytes.
convert_pdf_to_image_bytes(pdf) ==
    CASE pdf = "unopenable" -> [image |-> None, raised |-> FALSE, handle_open |-> FALSE]
      [] pdf = "zero_pages" -> [image |-> None, raised |-> FALSE, handle_open |-> TRUE]
      [] pdf = "render_error" -> [image |-> None, raised |-> FALSE, handle_open |-> TRUE]
      [] OTHER -> [image |-> Bytes(1), raised |-> FALSE, handle_open |-> FALSE]

\* ----------------------------------------------------------- model replies
\* Key sets of the reply objects explored: the schema, one field short, and
\* the schema with a key of its own besides.
ReplyKeySets ==
    { RequiredFields,
      RequiredFields \ { "bore_diameter" },
      RequiredFields \cup { "error" },
      RequiredFields \cup { "filename" } }

\* A reply object: every key with a string value.
ReplyObject(keys) == JsonDict([k \in keys |-> JsonStr("160 mm", 6)])

\* JSON values a reply can parse to.
ReplyValues ==
    { ReplyObject(ks) : ks \in ReplyKeySets }
        \cup { JsonList, JsonStr("no error found", 14), JsonNum, JsonNull }

\* Lengths of the unparseable replies explored: around the diagnostic cap.
RawLens == { 0, DiagnosticCap, DiagnosticCap + 1 }

\* response.choices[0].message.content: its length and what it parses to.
Contents ==
    { [len |-> 64, value |-> v] : v \in ReplyValues }
        \cup { [len |-> n, value |-> NotJson] : n \in RawLens }

\* What client.chat.completions.create does: raises, answers without text
\* (content None), or answers with text.
Replies ==
    { [kind |-> "raise", content |-> [len |-> 0, value |-> NotJson]],
      [kind |-> "no_text", content |-> [len |-> 0, value |-> NotJson]] }
        \cup { [kind |-> "text", content |-> c] : c \in Contents }

\* The raw text as a string value.
RawText(content) == JsonStr("raw reply", content.len)

\* ----------------------------------------------------- Extraction Client
\* With a retry after a failed request.
analyze_engineering_drawing_retrying(image_bytes, cl, reply) ==
    IF image_bytes.isNone
    THEN [data |-> JsonNull, kind |-> "raised", calls |-> 0, raised |-> TRUE]
    ELSE IF ~cl
    THEN [data |-> ErrorDict("Azure OpenAI client not initialized"),
          kind |-> "ClientUnavailable", calls |-> 0, raised |-> FALSE]
    ELSE IF reply.kind = "raise"
    THEN [data |-> ErrorDict("request failed"),
          kind |-> "RequestFailure", calls |-> 2, raised |-> FALSE]
    ELSE IF reply.kind = "no_text"
    THEN [data |-> ErrorDict("the JSON object must be str, bytes or bytearray, not NoneType"),
          kind |-> "RequestFailure", calls |-> 1, raised |-> FALSE]
    ELSE IF reply.content.value.type = "invalid"
    THEN [data |-> JsonDict([k \in {"error", "raw_response"} |->
                        IF k = "error" THEN Msg("JSON decoding failed")
                        ELSE RawText(reply.content)]),
          kind |-> "MalformedReply", calls |-> 1, raised |-> FALSE]
    ELSE [data |-> reply.content.value,
          kind |-> "Success", calls |-> 1, raised |-> FALSE]

\* With the request error left uncaught.
analyze_engineering_drawing_unguarded(image_bytes, cl, reply) ==
    IF image_bytes.isNone
    THEN [data |-> JsonNull, kind |-> "raised", calls |-> 0, raised |-> TRUE]
    ELSE IF ~cl
    THEN [data |-> ErrorDict("Azure OpenAI client not initialized"),
          kind |-> "ClientUnavailable", calls |-> 0, raised |-> FALSE]
    ELSE IF reply.kind = "raise"
    THEN [data |-> JsonNull, kind |-> "raised", calls |-> 1, raised |-> TRUE]
    ELSE IF reply.kind = "no_text"
    THEN [data |-> ErrorDict("the JSON object must be str, bytes or bytearray, not NoneType"),
          kind |-> "RequestFailure", calls |-> 1, raised |-> FALSE]
    ELSE IF reply.content.value.type = "invalid"
    THEN [data |-> JsonDict([k \in {"error", "raw_response"} |->
                        IF k = "error" THEN Msg("JSON decoding failed")
                        ELSE RawText(reply.content)]),
          kind |-> "MalformedReply", calls |-> 1, raised |-> FALSE]
    ELSE [data |-> reply.content.value,
          kind |-> "Success", calls |-> 1, raised |-> FALSE]

\* analyze_engineering_drawing(image_bytes, filename): the value returned
\* (data), the stage that produced it (kind), the number of requests sent to
\* the model (calls), and whether the call raised instead of returning.
\*   encode_image_to_base64(None) raises before anything else;
\*   `if not client` returns the client error without a request;
\*   an exception of the request, or of json.loads other than
\*   JSONDecodeError, returns {"error": str(e)};
\*   JSONDecodeError returns the decode error with the whole raw reply;
\*   otherwise whatever json.loads returned.
analyze_engineering_drawing(image_bytes, cl, reply) ==
    IF image_bytes.isNone
    THEN [data |-> JsonNull, kind |-> "raised", calls |-> 0, raised |-> TRUE]
    ELSE IF ~cl
    THEN [data |-> ErrorDict("Azure OpenAI client not initialized"),
          kind |-> "ClientUnavailable", calls |-> 0, raised |-> FALSE]
    ELSE IF reply.kind = "raise"
    THEN [data |-> ErrorDict("request failed"),
          kind |-> "RequestFailure", calls |-> 1, raised |-> FALSE]
    ELSE IF reply.kind = "no_text"
    THEN [data |-> ErrorDict("the JSON object must be str, bytes or bytearray, not NoneType"),
          kind |-> "RequestFailure", calls |-> 1, raised |-> FALSE]
    ELSE IF reply.content.value.type = "invalid"
    THEN [data |-> JsonDict([k \in {"error", "raw_response"} |->
                        IF k = "error" THEN Msg("JSON decoding failed")
                        ELSE RawText(reply.content)]),
          kind |-> "MalformedReply", calls |-> 1, raised |-> FALSE]
    ELSE [data |-> reply.content.value,
          kind |-> "Success", calls |-> 1, raised |-> FALSE]

\* ------------------------------------------------------------------ state
VARIABLES
    program,            \* "app" (main.py) or "script" (extract_parameters.main)
    client,             \* the module-level client: configured (TRUE) or falsy
    files,              \* uploaded_files / pdf_files_to_process
    i,                  \* position of the batch loop: next file to process
    all_extracted_data, \* the accumulated {"filename", "data"} entries
    outcome,            \* per processed file, the stage that settled it
    requests,           \* per processed file, requests sent to the model
    pdf_met,            \* per processed file, what the rasterizer met
    open_handles,       \* PDF documents opened and not closed
    pc,                 \* where the run stands
    j,                  \* position of the presenter loop
    flattened_data,     \* rows collected for the export
    export              \* the export artifact

vars == << program, client, files, i, all_extracted_data, outcome, requests,
           pdf_met, open_handles, pc, j, flattened_data, export >>

NoExport == [produced |-> FALSE, columns |-> {}, rows |-> << >>]

Entry(name, d) == [filename |-> name, data |-> d]

\* Sequences over S of length at most n.
SeqUpTo(S, n) == UNION { [1..k -> S] : k \in 0..n }

\* os.listdir filtered by f.lower().endswith('.pdf')
pdf_files_to_process(listing) == SelectSeq(listing, ends_with_pdf)

\* The module-level client: configured (TRUE) or not (FALSE, falsy).
ClientStates == BOOLEAN

Init ==
    /\ program \in { "app", "script" }
    /\ client \in ClientStates
    /\ \E listing \in SeqUpTo(Names, MaxFiles) :
          files = IF program = "app" THEN listing ELSE pdf_files_to_process(listing)
    /\ i = 1
    /\ all_extracted_data = << >>
    /\ outcome = << >>
    /\ requests = << >>
    /\ pdf_met = << >>
    /\ open_handles = 0
    /\ pc = IF program = "app" THEN "start" ELSE "loop"
    /\ j = 1
    /\ flattened_data = << >>
    /\ export = NoExport

\* ------------------------------------------------------- main.py: the loop
\* Normalizing with the unsupported branch forgetting its entry.
normalize_upload_dropping(name, size, pdf) ==
    LET ext == file_extension(name)
        c == convert_pdf_to_image_bytes(pdf)
    IN  IF ext = "pdf"
        THEN IF c.raised
             THEN [next |-> "raise", image |-> None, appended |-> << >>,
                   kind |-> "raised", handle_open |-> c.handle_open]
             ELSE IF ~Truthy(c.image)
             THEN [next |-> "continue", image |-> c.image,
                   appended |-> << Entry(name, ErrorDict("PDF conversion failed")) >>,
                   kind |-> "RenderFailure", handle_open |-> c.handle_open]
             ELSE [next |-> "extract", image |-> c.image, appended |-> << >>,
                   kind |-> "", handle_open |-> c.handle_open]
        ELSE IF ext \in { "png", "jpg", "jpeg" }
        THEN [next |-> "extract", image |-> Bytes(size), appended |-> << >>,
              kind |-> "", handle_open |-> FALSE]
        ELSE [next |-> "continue", image |-> None, appended |-> << >>,
              kind |-> "UnsupportedFormat", handle_open |-> FALSE]

\* Normalizing with every non-PDF read as an image.
normalize_upload_accepting(name, size, pdf) ==
    LET ext == file_extension(name)
        c == convert_pdf_to_image_bytes(pdf)
    IN  IF ext = "pdf"
        THEN IF c.raised
             THEN [next |-> "raise", image |-> None, appended |-> << >>,
                   kind |-> "raised", handle_open |-> c.handle_open]
             ELSE IF ~Truthy(c.image)
             THEN [next |-> "continue", image |-> c.image,
                   appended |-> << Entry(name, ErrorDict("PDF conversion failed")) >>,
                   kind |-> "RenderFailure", handle_open |-> c.handle_open]
             ELSE [next |-> "extract", image |-> c.image, appended |-> << >>,
                   kind |-> "", handle_open |-> c.handle_open]
        ELSE [next |-> "extract", image |-> Bytes(size), appended |-> << >>,
              kind |-> "", handle_open |-> FALSE]

\* main.py, the first half of the loop body: the extension decides between
\* rasterizing a PDF, reading an image and skipping the file.
\*   next "continue": an error entry was appended and the iteration ends;
\*   next "extract":  image holds the bytes to analyze;
\*   next "raise":    an exception left the loop body.
normalize_upload(name, size, pdf) ==
    LET ext == file_extension(name)
        c == convert_pdf_to_image_bytes(pdf)
    IN  IF ext = "pdf"
        THEN IF c.raised
             THEN [next |-> "raise", image |-> None, appended |-> << >>,
                   kind |-> "raised", handle_open |-> c.handle_open]
             ELSE IF ~Truthy(c.image)
             THEN [next |-> "continue", image |-> c.image,
                   appended |-> << Entry(name, ErrorDict("PDF conversion failed")) >>,
                   kind |-> "RenderFailure", handle_open |-> c.handle_open]
             ELSE [next |-> "extract", image |-> c.image, appended |-> << >>,
                   kind |-> "", handle_open |-> c.handle_open]
        ELSE IF ext \in { "png", "jpg", "jpeg" }
        THEN [next |-> "extract", image |-> Bytes(size), appended |-> << >>,
              kind |-> "", handle_open |-> FALSE]
        ELSE [next |-> "continue", image |-> None,
              appended |-> << Entry(name, ErrorDict("Unsupported file type")) >>,
              kind |-> "UnsupportedFormat", handle_open |-> FALSE]

\* main.py, the second half of the loop body: analyze the image, or record
\* that there is none.
extract_upload(name, image, cl, reply) ==
    IF Truthy(image)
    THEN LET a == analyze_engineering_drawing(image, cl, reply)
         IN  [appended |-> IF a.raised THEN << >> ELSE << Entry(name, a.data) >>,
              kind |-> a.kind, calls |-> a.calls, raised |-> a.raised]
    ELSE [appended |-> << Entry(name, ErrorDict("No image data to analyze")) >>,
          kind |-> "EmptyImage", calls |-> 0, raised |-> FALSE]

\* `if uploaded_files:`
AppStart ==
    /\ program = "app"
    /\ pc = "start"
    /\ pc' = IF files # << >> THEN "loop" ELSE "done"
    /\ UNCHANGED << program, client, files, i, all_extracted_data, outcome,
                    requests, pdf_met, open_handles, j, flattened_data, export >>

\* One iteration of `for i, uploaded_file in enumerate(uploaded_files)`.
ProcessUploadedFile ==
    /\ program = "app"
    /\ pc = "loop"
    /\ i <= Len(files)
    /\ \E size \in PayloadSizes, pdf \in PdfStates, reply \in Replies :
          LET n == normalize_upload(files[i], size, pdf)
              x == extract_upload(files[i], n.image, client, reply)
              handle == IF n.handle_open THEN 1 ELSE 0
              met == IF file_extension(files[i]) = "pdf" THEN pdf ELSE "none"
          IN  /\ open_handles' = open_handles + handle
              /\ pdf_met' = Append(pdf_met, met)
              /\ CASE n.next = "raise" ->
                        /\ pc' = "crashed"
                        /\ UNCHANGED << i, all_extracted_data, outcome, requests >>
                   [] n.next = "continue" ->
                        /\ all_extracted_data' = all_extracted_data \o n.appended
                        /\ outcome' = Append(outcome, n.kind)
                        /\ requests' = Append(requests, 0)
                        /\ i' = i + 1
                        /\ pc' = "loop"
                   [] OTHER ->
                        IF x.raised
                        THEN /\ pc' = "crashed"
                             /\ requests' = Append(requests, x.calls)
                             /\ UNCHANGED << i, all_extracted_data, outcome >>
                        ELSE /\ all_extracted_data' = all_extracted_data \o x.appended
                             /\ outcome' = Append(outcome, x.kind)
                             /\ requests' = Append(requests, x.calls)
                             /\ i' = i + 1
                             /\ pc' = "loop"
    /\ UNCHANGED << program, client, files, j, flattened_data, export >>

\* The loop is over: `if all_extracted_data:` ... `else: st.info(...)`.
AppLoopDone ==
    /\ program = "app"
    /\ pc = "loop"
    /\ i > Len(files)
    /\ pc' = IF all_extracted_data # << >> THEN "present" ELSE "done"
    /\ UNCHANGED << program, client, files, i, all_extracted_data, outcome,
                    requests, pdf_met, open_handles, j, flattened_data, export >>

\* -------------------------------------------------- main.py: presentation
\* `"error" in data`: key lookup in a dict, element lookup in a list (the
\* list explored holds no such element), substring test in a string,
\* TypeError on a number or None.
contains_error(data) ==
    CASE data.type = "dict" -> [raised |-> FALSE, value |-> "error" \in DOMAIN data.map]
      [] data.type = "list" -> [raised |-> FALSE, value |-> FALSE]
      [] data.type = "str" -> [raised |-> FALSE, value |-> data.text = "no error found"]
      [] OTHER -> [raised |-> TRUE, value |-> FALSE]

\* row = {"filename": filename}; row.update(data)
row_of(filename, data) ==
    [k \in { "filename" } \cup DOMAIN data.map |->
        IF k \in DOMAIN data.map THEN data.map[k] ELSE Msg(filename)]

\* The body of `for item in all_extracted_data`: an error entry is shown and
\* skipped ("continue"), anything else is tabulated and becomes a row
\* ("row"); data['error'] and data.items() raise on what is not a dict.
present_item(item) ==
    LET data == item.data
        e == contains_error(data)
    IN  IF e.raised
        THEN [next |-> "raise", rows |-> << >>]
        ELSE IF e.value
        THEN IF data.type = "dict"
             THEN [next |-> "continue", rows |-> << >>]
             ELSE [next |-> "raise", rows |-> << >>]
        ELSE IF data.type = "dict"
        THEN [next |-> "row", rows |-> << row_of(item.filename, data) >>]
        ELSE [next |-> "raise", rows |-> << >>]

\* pd.DataFrame(rows): the columns are the keys of the rows.
DataFrame(rows) ==
    [produced |-> TRUE,
     columns |-> UNION { DOMAIN rows[k] : k \in 1..Len(rows) },
     rows |-> rows]

\* An export that takes its header from the first row.
to_csv_first_row(rows) ==
    IF rows = << >>
    THEN [raised |-> TRUE, table |-> NoExport]
    ELSE [raised |-> FALSE, table |-> DataFrame(rows)]

\* pd.DataFrame(flattened_data).to_csv(csv_buffer, index=False)
to_csv(rows) == [raised |-> FALSE, table |-> DataFrame(rows)]

\* One iteration of `for item in all_extracted_data`.
PresentItem ==
    /\ program = "app"
    /\ pc = "present"
    /\ j <= Len(all_extracted_data)
    /\ LET p == present_item(all_extracted_data[j])
       IN  IF p.next = "raise"
           THEN /\ pc' = "crashed"
                /\ UNCHANGED << j, flattened_data >>
           ELSE /\ flattened_data' = flattened_data \o p.rows
                /\ j' = j + 1
                /\ pc' = "present"
    /\ UNCHANGED << program, client, files, i, all_extracted_data, outcome,
                    requests, pdf_met, open_handles, export >>

\* The CSV download built after the presenter loop.
ExportCsv ==
    /\ program = "app"
    /\ pc = "present"
    /\ j > Len(all_extracted_data)
    /\ LET c == to_csv(flattened_data)
       IN  IF c.raised
           THEN /\ pc' = "crashed"
                /\ UNCHANGED export
           ELSE /\ export' = c.table
                /\ pc' = "done"
    /\ UNCHANGED << program, client, files, i, all_extracted_data, outcome,
                    requests, pdf_met, open_handles, j, flattened_data >>

\* ------------------------------------------- extract_parameters.py: main
\* What opening and reading a listed file does.
ReadStates == { "ok", "not_found", "io_error" }

\* The try block of `for pdf_path in pdf_files_to_process`: every path of
\* it, the two except clauses included, appends one entry.
process_pdf_path(name, read, pdf, cl, reply) ==
    LET c == convert_pdf_to_image_bytes(pdf)
        a == analyze_engineering_drawing(c.image, cl, reply)
    IN  IF read = "not_found"
        THEN [appended |-> << Entry(name, ErrorDict("File not found")) >>,
              kind |-> "FileNotFound", calls |-> 0, handle_open |-> FALSE]
        ELSE IF read = "io_error"
        THEN [appended |-> << Entry(name, ErrorDict("read failed")) >>,
              kind |-> "ReadFailure", calls |-> 0, handle_open |-> FALSE]
        ELSE IF c.raised
        THEN [appended |-> << Entry(name, ErrorDict("conversion raised")) >>,
              kind |-> "RenderFailure", calls |-> 0, handle_open |-> c.handle_open]
        ELSE IF ~Truthy(c.image)
        THEN [appended |-> << Entry(name, ErrorDict("PDF to image conversion failed")) >>,
              kind |-> "RenderFailure", calls |-> 0, handle_open |-> c.handle_open]
        ELSE IF a.raised
        THEN [appended |-> << Entry(name, ErrorDict("analysis raised")) >>,
              kind |-> "RequestFailure", calls |-> a.calls, handle_open |-> c.handle_open]
        ELSE [appended |-> << Entry(name, a.data) >>,
              kind |-> a.kind, calls |-> a.calls, handle_open |-> c.handle_open]

\* row = {"filename": ...}; row.update(data) for a dict, else "No data".
record_of(item) ==
    IF item.data.type = "dict"
    THEN row_of(item.filename, item.data)
    ELSE row_of(item.filename, ErrorDict("No data"))

\* One iteration of `for pdf_path in pdf_files_to_process`.
ScriptProcessPdf ==
    /\ program = "script"
    /\ pc = "loop"
    /\ i <= Len(files)
    /\ \E read \in ReadStates, pdf \in PdfStates, reply \in Replies :
          LET r == process_pdf_path(files[i], read, pdf, client, reply)
          IN  /\ all_extracted_data' = all_extracted_data \o r.appended
              /\ outcome' = Append(outcome, r.kind)
              /\ requests' = Append(requests, r.calls)
              /\ pdf_met' = Append(pdf_met, IF read = "ok" THEN pdf ELSE "none")
              /\ open_handles' = open_handles + (IF r.handle_open THEN 1 ELSE 0)
    /\ i' = i + 1
    /\ UNCHANGED << program, client, files, pc, j, flattened_data, export >>

\* After the loop: print and dump the entries, build the records, save the
\* spreadsheet.
ScriptSave ==
    /\ program = "script"
    /\ pc = "loop"
    /\ i > Len(files)
    /\ flattened_data' = [k \in 1..Len(all_extracted_data) |-> record_of(all_extracted_data[k])]
    /\ export' = DataFrame(flattened_data')
    /\ j' = Len(all_extracted_data) + 1
    /\ pc' = "done"
    /\ UNCHANGED << program, client, files, i, all_extracted_data, outcome,
                    requests, pdf_met, open_handles >>

\* ---------------------------------------------------------- specification
Next ==
    \/ AppStart
    \/ ProcessUploadedFile
    \/ AppLoopDone
    \/ PresentItem
    \/ ExportCsv
    \/ ScriptProcessPdf
    \/ ScriptSave

Spec == Init /\ [][Next]_vars

\* ------------------------------------------------------------ properties
\* The outcomes that are failures of a pipeline stage.
FailureKinds ==
    { "UnsupportedFormat", "RenderFailure", "EmptyImage", "ClientUnavailable",
      "RequestFailure", "MalformedReply", "FileNotFound", "ReadFailure" }

\* An error record: a dict with an "error" key.
IsErrorRecord(d) == d.type = "dict" /\ "error" \in DOMAIN d.map

\* The batch loop has run over every file.
LoopOver == pc # "start" /\ i > Len(files)

\* C1: when the batch loop finishes, the accumulated list holds exactly one
\* entry per document and the k-th entry carries the filename of the k-th
\* document; while the loop runs, the same holds of the documents processed
\* so far.
C1_OneEntryPerDocument ==
    /\ i <= Len(files) + 1
    /\ Len(all_extracted_data) = i - 1
    /\ \A k \in 1..Len(all_extracted_data) : all_extracted_data[k].filename = files[k]
    /\ LoopOver => Len(all_extracted_data) = Len(files)

\* C1 witness: the upload page finished the loop over an unsupported file
\* followed by an image whose reply parsed.
C1_Witness ==
    /\ program = "app"
    /\ LoopOver
    /\ Len(files) >= 2
    /\ files[1] = "d.txt" /\ files[2] = "b.png"
    /\ outcome[1] = "UnsupportedFormat" /\ outcome[2] = "Success"
    /\ Len(all_extracted_data) = Len(files)

\* C2: every iteration of the batch loop, whatever stage fails in it,
\* records one outcome for its document (an error record when the stage
\* failed) and hands over to the next document; the loop is never left
\* through an error.
C2_FailureIsolation ==
    [][ (pc = "loop" /\ i <= Len(files)) =>
            /\ pc' = "loop"
            /\ i' = i + 1
            /\ Len(outcome') = i
            /\ Len(all_extracted_data') = i
            /\ all_extracted_data'[i].filename = files[i]
            /\ (outcome'[i] \in FailureKinds => IsErrorRecord(all_extracted_data'[i].data))
      ]_vars

\* C2 witness: a document whose reply did not parse was followed by a
\* document that went through its own pipeline to Success.
C2_Witness ==
    /\ program = "app"
    /\ Len(outcome) >= 2
    /\ outcome[1] = "MalformedReply"
    /\ IsErrorRecord(all_extracted_data[1].data)
    /\ outcome[2] = "Success"
    /\ requests[2] = 1

\* C3 (as claimed): the export holds one row per document of the batch, in
\* upload order: the k-th row is the row of the k-th document, with a
\* filename column, the parameter values of a Success document and no
\* parameter value of a failed one.
C3_OneRowPerDocument ==
    export.produced =>
        /\ Len(export.rows) = Len(files)
        /\ \A k \in 1..Len(export.rows) :
              LET row == export.rows[k]
                  data == all_extracted_data[k].data
              IN  /\ "filename" \in DOMAIN row
                  /\ "filename" \notin DOMAIN data.map => row["filename"] = Msg(files[k])
                  /\ outcome[k] \in FailureKinds => DOMAIN row \cap RequiredFields = {}
                  /\ outcome[k] = "Success" =>
                        \A key \in DOMAIN data.map \ { "filename" } :
                            key \in DOMAIN row /\ row[key] = data.map[key]

\* The extensions the upload page accepts.
AcceptedExtensions == { "pdf", "png", "jpg", "jpeg" }

\* C4: a processed document whose extension is not accepted has the outcome
\* UnsupportedFormat, recorded as the error "Unsupported file type", and no
\* request was sent to the model for it.
C4_UnsupportedNeverExtracted ==
    program = "app" =>
        \A k \in 1..Len(pdf_met) :
            file_extension(files[k]) \notin AcceptedExtensions =>
                /\ k <= Len(outcome)
                /\ outcome[k] = "UnsupportedFormat"
                /\ all_extracted_data[k] = Entry(files[k], ErrorDict("Unsupported file type"))
                /\ requests[k] = 0

\* C4 witness: with a configured client, a .txt upload was settled as
\* UnsupportedFormat without a request.
C4_Witness ==
    /\ program = "app"
    /\ client
    /\ Len(outcome) >= 1
    /\ files[1] = "d.txt"
    /\ outcome[1] = "UnsupportedFormat"
    /\ requests[1] = 0

\* C5 (as claimed): the raw reply retained in a MalformedReply record is at
\* most 500 characters long.
C5_BoundedDiagnostic ==
    \A k \in 1..Len(outcome) :
        outcome[k] = "MalformedReply" =>
            \A key \in DOMAIN all_extracted_data[k].data.map :
                all_extracted_data[k].data.map[key].len <= DiagnosticCap

\* C6 (as claimed): the keys of every Success value mapping are exactly the
\* required fields of the schema.
C6_SchemaComplete ==
    \A k \in 1..Len(outcome) :
        outcome[k] = "Success" =>
            /\ all_extracted_data[k].data.type = "dict"
            /\ DOMAIN all_extracted_data[k].data.map = RequiredFields

\* C7: a PDF without pages, or one the rasterizer cannot open, is settled
\* as RenderFailure with an error record and without a request to the
\* model, and the batch loop is not left through an error.
C7_RenderFailureRecorded ==
    /\ \A k \in 1..Len(pdf_met) :
          pdf_met[k] \in { "zero_pages", "unopenable" } =>
              /\ k <= Len(outcome)
              /\ outcome[k] = "RenderFailure"
              /\ all_extracted_data[k].filename = files[k]
              /\ IsErrorRecord(all_extracted_data[k].data)
              /\ requests[k] = 0
    /\ pc = "crashed" => LoopOver

\* C7 witness: the upload page met a PDF without pages, recorded the
\* failure and went on to the next document.
C7_Witness ==
    /\ program = "app"
    /\ client
    /\ Len(outcome) >= 2
    /\ pdf_met[1] = "zero_pages"
    /\ outcome[1] = "RenderFailure"
    /\ all_extracted_data[1] = Entry(files[1], ErrorDict("PDF conversion failed"))

\* C8 (as claimed): the batch invocation never ends in an uncaught error.
C8_NoUncaughtError == pc # "crashed"

\* Every document of the batch was processed and failed.
AllFailed ==
    /\ files # << >>
    /\ Len(outcome) = Len(files)
    /\ \A k \in 1..Len(outcome) : outcome[k] \in FailureKinds

\* C9: the upload page with no document produces no export and raises
\* nothing; a batch in which every document failed raises nothing and ends
\* with an export whose rows hold no parameter value.
C9_ExportDegradesGracefully ==
    /\ (program = "app" /\ files = << >>) => (pc # "crashed" /\ ~export.produced)
    /\ AllFailed =>
          /\ pc # "crashed"
          /\ pc = "done" =>
                /\ export.produced
                /\ \A k \in 1..Len(export.rows) :
                      DOMAIN export.rows[k] \cap RequiredFields = {}
                /\ export.columns \cap RequiredFields = {}

\* C9 witness: the upload page finished a batch of two failed documents
\* with an export without rows.
C9_Witness ==
    /\ program = "app"
    /\ pc = "done"
    /\ Len(files) >= 2
    /\ AllFailed
    /\ export.produced
    /\ export.rows = << >>

\* The outcomes a request to the model leads to.
RequestKinds == { "Success", "RequestFailure", "MalformedReply" }

\* C10: for every processed document exactly one request was sent to the
\* model when the Extraction Client was called with a configured client,
\* whatever came of it, and none otherwise.
C10_OneRequestPerCall ==
    /\ Len(requests) = Len(outcome)
    /\ \A k \in 1..Len(outcome) :
          requests[k] = IF client /\ outcome[k] \in RequestKinds THEN 1 ELSE 0

\* C10 witness: a request that raised was sent once, and the next document
\* got its own single request.
C10_Witness ==
    /\ client
    /\ Len(outcome) >= 2
    /\ outcome[1] = "RequestFailure"
    /\ requests[1] = 1
    /\ outcome[2] = "MalformedReply"
    /\ requests[2] = 1

\* C11 (as claimed): every PDF document convert_pdf_to_image_bytes opened
\* has been closed by it when it returns, on every exit path; no handle it
\* opened is still open.
C11_HandlesReleased == open_handles = 0

\* C12 (as claimed): the filename column of every export row is the
\* filename of the document the row was built for, whatever keys the reply
\* for that document holds.
C12_FilenameColumnKept ==
    [][ /\ (program = "app" /\ pc = "present"
                /\ Len(flattened_data') = Len(flattened_data) + 1) =>
              flattened_data'[Len(flattened_data')]["filename"]
                  = Msg(all_extracted_data[j].filename)
        /\ (program = "script" /\ pc = "loop" /\ pc' = "done") =>
              \A k \in 1..Len(flattened_data') :
                  flattened_data'[k]["filename"] = Msg(all_extracted_data[k].filename)
      ]_vars

\* C13 (as claimed): the presenter shows a document as a failure, without
\* a row for the export, exactly when a stage of its pipeline failed; a
\* document whose reply parsed as a JSON object is tabulated and gets its
\* row, whatever keys the object has.
C13_FailureShownIffStageFailed ==
    [][ (program = "app" /\ pc = "present" /\ j' = j + 1) =>
            /\ (Len(flattened_data') = Len(flattened_data)) <=> (outcome[j] \in FailureKinds)
            /\ (outcome[j] = "Success" /\ all_extracted_data[j].data.type = "dict") =>
                  Len(flattened_data') = Len(flattened_data) + 1
      ]_vars

====
